---- MODULE Spec2Model ----
(***************************************************************************)
(* Model of the quality-dimension-generator persistence/identity core:     *)
(* the per-project .qdg store (QdgDirectoryManager), the settings document *)
(* (ConfigManager), the task fingerprint and the dedup lookup of the       *)
(* generate_quality_dimensions_prompt tool, and the record writers.        *)
(* One project path is modelled; its filesystem is the state.              *)
(***************************************************************************)
EXTENDS Integers, Sequences, FiniteSets, TLC

VARIABLES
    dirs,        \* which of .qdg, .qdg/tasks, .qdg/config exist
    configFile,  \* .qdg/config/qdg.config.json: <<>> (no file) or <<document>>
    tasksDir,    \* entries of .qdg/tasks in the order readdir returns them
    clock,       \* Date.now()
    cfgResp,     \* outcome of the last ConfigManager / initializer call
    toolResp,    \* outcome of the last tool call
    saveResp,    \* outcome of the last QdgDirectoryManager save call
    fp,          \* the arguments drawn for a function and the values computed for them
    issued,      \* the (fingerprint, Task ID) pairs the generate tool has reported
    projects,    \* optional-path server: the .qdg tree of each directory on disk
    optResp,     \* optional-path server: outcome of the last tool call
    procs        \* the calls in flight: where each one is and what it has read

vars == <<dirs, configFile, tasksDir, clock, cfgResp, toolResp, saveResp, fp, issued,
          projects, optResp, procs>>

\* what the single-project server and its managers leave alone
others == <<projects, optResp, procs>>

(***************************************************************************)
(* Bounds of the model.                                                    *)
(***************************************************************************)
\* numeric arguments tried for counts and scores run from -1 to MaxNumber
MaxNumber == 11
\* Date.now() runs from ClockStart to ClockStart + MaxTicks
MaxTicks == 1
\* entries the tasks directory may hold
MaxEntries == 2
\* longest keyElements / objectives list of a task analysis
MaxListLen == 2
\* hex digits kept of the digest (8 in the program)
HashLen == 2
\* low-order decimal digits of Date.now() that the model keeps
TsLen == 2

(***************************************************************************)
(* Program constants.                                                      *)
(***************************************************************************)
DefaultDimensionCount == 5
DefaultExpectedScore == 8
MinDimensionCount == 1
MaxDimensionCount == 10
MinExpectedScore == 0
MaxExpectedScore == 10

\* a JSON field that is not present (undefined)
Absent == -100

Numbers == -1 .. MaxNumber
Fields == Numbers \cup {Absent}

(***************************************************************************)
(* Settings documents.  A document is what JSON.parse sees: either not     *)
(* valid JSON, or an object with optional top-level dimensionCount /       *)
(* expectedScore and an optional settings object holding the same two.     *)
(***************************************************************************)
Doc(valid, dc, es, hasSettings, sdc, ses) ==
    [valid |-> valid, dc |-> dc, es |-> es,
     hasSettings |-> hasSettings, sdc |-> sdc, ses |-> ses]

CorruptDoc == Doc(FALSE, Absent, Absent, FALSE, Absent, Absent)

DEFAULT_CONFIG == Doc(TRUE, DefaultDimensionCount, DefaultExpectedScore, FALSE, Absent, Absent)

\* the document createConfigFiles writes: { settings: { dimensionCount: 5, expectedScore: 8 } }
defaultConfig == Doc(TRUE, Absent, Absent, TRUE, DefaultDimensionCount, DefaultExpectedScore)

\* { ...a, ...b }: every key b has wins, the others come from a
Spread(a, b) ==
    Doc(TRUE,
        IF b.dc # Absent THEN b.dc ELSE a.dc,
        IF b.es # Absent THEN b.es ELSE a.es,
        a.hasSettings \/ b.hasSettings,
        IF b.hasSettings THEN b.sdc ELSE a.sdc,
        IF b.hasSettings THEN b.ses ELSE a.ses)

\* a Partial<QdgConfig> argument
Partial(dc, es) == Doc(TRUE, dc, es, FALSE, Absent, Absent)

FileExists(file) == file # <<>>

(***************************************************************************)
(* QdgDirectoryManager.initializeQdgDirectory / createConfigFiles.         *)
(* failDirs: the subdirectories whose mkdir fails; writeOk: whether        *)
(* fs.writeFile of the settings document succeeds.                         *)
(***************************************************************************)
DirNames == <<"qdgDir", "tasks", "config">>

\* fs.mkdir(dirPath, {recursive: true}): the directory and its parents
MkdirRecursive(d, name) ==
    d \cup {name, "qdgDir"}

\* fs.readdir(dirPath).length === 0
DirIsEmpty(d, file, entries, name) ==
    CASE name = "qdgDir" -> ~("tasks" \in d) /\ ~("config" \in d)
      [] name = "tasks" -> entries = <<>>
      [] name = "config" -> ~FileExists(file)

RECURSIVE MkdirLoop(_, _, _, _, _, _, _)
MkdirLoop(i, d, file, entries, failDirs, created, existed) ==
    IF i > Len(DirNames) THEN [dirs |-> d, created |-> created, existed |-> existed]
    ELSE LET name == DirNames[i] IN
         IF name \in failDirs
         THEN MkdirLoop(i + 1, d, file, entries, failDirs, created, existed)
         ELSE LET d2 == MkdirRecursive(d, name) IN
              IF DirIsEmpty(d2, file, entries, name)
              THEN MkdirLoop(i + 1, d2, file, entries, failDirs, Append(created, name), existed)
              ELSE MkdirLoop(i + 1, d2, file, entries, failDirs, created, Append(existed, name))

\* createConfigFiles without the fs.access test: the defaults are always written
createConfigFilesOverwrites(d, file, writeOk) ==
    IF "config" \in d /\ writeOk
    THEN [threw |-> FALSE, file |-> <<defaultConfig>>]
    ELSE [threw |-> TRUE, file |-> file]

\* createConfigFiles: [threw, file]
createConfigFiles(d, file, writeOk) ==
    IF FileExists(file) THEN [threw |-> FALSE, file |-> file]
    ELSE IF "config" \in d /\ writeOk
         THEN [threw |-> FALSE, file |-> <<defaultConfig>>]
         ELSE [threw |-> TRUE, file |-> file]

\* the whole of initializeQdgDirectory as a function of the filesystem
initializeQdgDirectory(d, file, entries, failDirs, writeOk) ==
    LET m == MkdirLoop(1, d, file, entries, failDirs, <<>>, <<>>)
        c == createConfigFiles(m.dirs, file, writeOk)
    IN [dirs |-> m.dirs, file |-> c.file, threw |-> c.threw,
        created |-> m.created, existed |-> m.existed]

(***************************************************************************)
(* ConfigManager.                                                          *)
(***************************************************************************)
\* fs.readFile + JSON.parse of the settings document: either throws
ReadAndParse(file, readOk) ==
    IF FileExists(file) /\ readOk /\ file[1].valid
    THEN [threw |-> FALSE, doc |-> file[1]]
    ELSE [threw |-> TRUE, doc |-> CorruptDoc]

\* getConfig without its catch block
getConfigResultNoCatch(file, readOk) ==
    LET r == ReadAndParse(file, readOk) IN
    [threw |-> r.threw, config |-> Spread(DEFAULT_CONFIG, r.doc)]

\* getConfig with its try/catch: [threw, config]
getConfigResult(file, readOk) ==
    LET r == ReadAndParse(file, readOk) IN
    IF r.threw
    THEN [threw |-> FALSE, config |-> DEFAULT_CONFIG]
    ELSE [threw |-> FALSE, config |-> Spread(DEFAULT_CONFIG, r.doc)]

\* getConfig: readOk is whether fs.readFile succeeds on an existing file
getConfig(file, readOk) == getConfigResult(file, readOk).config

getDimensionCount(file, readOk) == getConfig(file, readOk).dc

getExpectedScore(file, readOk) == getConfig(file, readOk).es

\* getQdgConfig: the parsed document as it is, or { settings: { 5, 8 } } when
\* the file cannot be read or parsed
getQdgConfig(file, readOk) ==
    LET r == ReadAndParse(file, readOk) IN
    IF r.threw THEN defaultConfig ELSE r.doc

\* saveConfig writing its argument instead of the merged configuration
saveConfigNoMerge(d, file, entries, config, failDirs, initWriteOk, readOk, writeOk) ==
    LET i == initializeQdgDirectory(d, file, entries, failDirs, initWriteOk)
    IN IF i.threw THEN [dirs |-> i.dirs, file |-> i.file, threw |-> TRUE]
       ELSE IF writeOk /\ "config" \in i.dirs
            THEN [dirs |-> i.dirs, file |-> <<config>>, threw |-> FALSE]
            ELSE [dirs |-> i.dirs, file |-> i.file, threw |-> TRUE]

\* saveConfig as a function of the filesystem: [dirs, file, threw]
saveConfig(d, file, entries, config, failDirs, initWriteOk, readOk, writeOk) ==
    LET i == initializeQdgDirectory(d, file, entries, failDirs, initWriteOk)
        currentConfig == getConfig(i.file, readOk)
        mergedConfig == Spread(currentConfig, config)
    IN IF i.threw THEN [dirs |-> i.dirs, file |-> i.file, threw |-> TRUE]
       ELSE IF writeOk /\ "config" \in i.dirs
            THEN [dirs |-> i.dirs, file |-> <<mergedConfig>>, threw |-> FALSE]
            ELSE [dirs |-> i.dirs, file |-> i.file, threw |-> TRUE]

\* the range check with its lower comparison off by one
DimensionCountInRangeOffByOne(count) == ~(count <= MinDimensionCount \/ count > MaxDimensionCount)

DimensionCountInRange(count) == ~(count < MinDimensionCount \/ count > MaxDimensionCount)

ExpectedScoreInRange(score) == ~(score < MinExpectedScore \/ score > MaxExpectedScore)

(***************************************************************************)
(* Task analyses and the task fingerprint (index.ts, taskHash).            *)
(* Strings are codes ordered as Array.prototype.sort orders them; an       *)
(* optional array is <<>> when absent and <<items>> when present.          *)
(***************************************************************************)
TaskAnalysis(coreTask, taskType, domain, keyElements, objectives) ==
    [coreTask |-> coreTask, taskType |-> taskType, domain |-> domain,
     keyElements |-> keyElements, objectives |-> objectives,
     taskName |-> <<"B", "l", "o", "g">>, complexity |-> 3]

\* the same analysis with another taskName (<<>>: missing or empty)
WithTaskName(task, taskName) == [task EXCEPT !.taskName = taskName]

\* the same analysis with another complexity (Absent: missing)
WithComplexity(task, complexity) == [task EXCEPT !.complexity = complexity]

MinComplexity == 1
MaxComplexity == 5
MinTaskNameLen == 3
MaxTaskNameLen == 15

\* validateTaskAnalysis(jsonString): the messages pushed to errors; json is
\* <<>> for a string that JSON.parse rejects and <<data>> otherwise
validateTaskAnalysis(json) ==
    IF json = <<>> THEN [isValid |-> FALSE, errors |-> {"Invalid JSON format"}]
    ELSE
    LET data == json[1]
        errors ==
            (IF data.coreTask = Absent THEN {"coreTask"} ELSE {})
            \cup (IF data.taskName = <<>> THEN {"taskName"} ELSE {})
            \cup (IF data.taskType = Absent THEN {"taskType"} ELSE {})
            \cup (IF data.domain = Absent THEN {"domain"} ELSE {})
            \cup (IF \/ data.complexity = Absent
                     \/ data.complexity < MinComplexity
                     \/ data.complexity > MaxComplexity
                  THEN {"complexity"} ELSE {})
            \cup (IF data.keyElements = <<>> THEN {"keyElements"} ELSE {})
            \cup (IF data.objectives = <<>> THEN {"objectives"} ELSE {})
            \cup (IF /\ data.taskName # <<>>
                     /\ (\/ Len(data.taskName) < MinTaskNameLen
                         \/ Len(data.taskName) > MaxTaskNameLen)
                  THEN {"taskName length"} ELSE {})
    IN [isValid |-> errors = {}, errors |-> errors]

\* insert x into the sorted sequence s
RECURSIVE SortedInsert(_, _)
SortedInsert(s, x) ==
    IF s = <<>> THEN <<x>>
    ELSE IF x <= Head(s) THEN <<x>> \o s
    ELSE <<Head(s)>> \o SortedInsert(Tail(s), x)

\* Array.prototype.sort() on strings
RECURSIVE Sort(_)
Sort(s) == IF s = <<>> THEN <<>> ELSE SortedInsert(Sort(Tail(s)), Head(s))

\* the array left in the order given
OptionalSortKeepsOrder(arr) == arr

\* task.keyElements?.sort()
OptionalSort(arr) == IF arr = <<>> THEN <<>> ELSE <<Sort(arr[1])>>

\* JSON.stringify of one array-valued key: a key whose value is undefined is
\* left out, an array is written with its key, brackets and items
StringifyArray(key, arr) ==
    IF arr = <<>> THEN <<>> ELSE <<key, Len(arr[1])>> \o arr[1]

\* JSON.stringify({coreTask, taskType, domain, keyElements, objectives})
Stringify(task) ==
    <<task.coreTask, task.taskType, task.domain>>
        \o StringifyArray(101, OptionalSort(task.keyElements))
        \o StringifyArray(102, OptionalSort(task.objectives))

HashSpace == 16 ^ HashLen

\* the digest: a fixed function of the serialized text into HashLen hex digits
RECURSIVE Digest(_, _)
Digest(text, h) ==
    IF text = <<>> THEN h
    ELSE Digest(Tail(text), (h * 31 + Head(text)) % HashSpace)

HexDigits == <<"0", "1", "2", "3", "4", "5", "6", "7", "8", "9", "a", "b", "c", "d", "e", "f">>

\* n written with exactly width digits in the given base
RECURSIVE ToDigits(_, _, _)
ToDigits(n, base, width) ==
    IF width = 0 THEN <<>>
    ELSE Append(ToDigits(n \div base, base, width - 1), HexDigits[(n % base) + 1])

\* crypto.createHash('md5').update(...).digest('hex').substring(0, 8)
taskHash(task) == ToDigits(Digest(Stringify(task), 24), 16, HashLen)

\* `task_${timestamp}_${taskHash}`
TaskId(timestamp, hash) ==
    <<"task", "_">> \o ToDigits(timestamp, 10, TsLen) \o <<"_">> \o hash

(***************************************************************************)
(* The tasks directory.  An entry is a directory (a task folder, with the  *)
(* files saved inside it) or a file (a flat record); name is its file name *)
(* as a sequence of characters.  A file is <<>> when it does not exist and *)
(* <<content>> when it does; content is the sequence of rendered segments  *)
(* written to it, <<>> for a file of size zero.                            *)
(***************************************************************************)
Kinds == {"dimension", "output", "task", "dimensions"}

NoInner == [k \in Kinds |-> <<>>]

DirEntry(name) == [name |-> name, isDir |-> TRUE, file |-> <<>>, inner |-> NoInner]

FileEntry(name, content) == [name |-> name, isDir |-> FALSE, file |-> <<content>>, inner |-> NoInner]

\* String.prototype.includes
Includes(hay, needle) ==
    \E i \in 1..(Len(hay) - Len(needle) + 1) :
        SubSeq(hay, i, i + Len(needle) - 1) = needle

\* index of the entry called name, 0 if there is none
IndexOf(entries, name) ==
    IF \E i \in DOMAIN entries : entries[i].name = name
    THEN CHOOSE i \in DOMAIN entries : entries[i].name = name
    ELSE 0

\* a lookup that never finds a record
findExistingNothing(entries, hash) == <<>>

\* taskFolders.find(folder => folder.includes(taskHash)) || null
findExisting(entries, hash) ==
    IF \E i \in DOMAIN entries : Includes(entries[i].name, hash)
    THEN LET first == CHOOSE i \in DOMAIN entries :
                          /\ Includes(entries[i].name, hash)
                          /\ \A j \in 1..(i - 1) : ~Includes(entries[j].name, hash)
         IN entries[first].name
    ELSE <<>>

\* where readdir may list a new entry called name: anywhere, the file system
\* decides; an entry that exists keeps its place
NewEntryPositions(entries, name) ==
    IF IndexOf(entries, name) = 0 THEN 1..(Len(entries) + 1) ELSE {1}

\* entries with e put at position pos (readdir order is the file system's)
InsertAt(entries, pos, e) ==
    LET p == IF pos > Len(entries) + 1 THEN Len(entries) + 1 ELSE pos
    IN SubSeq(entries, 1, p - 1) \o <<e>> \o SubSeq(entries, p, Len(entries))

(***************************************************************************)
(* Injected I/O faults of one call.                                        *)
(***************************************************************************)
Faults == {"none", "write"}

FailDirs(fault) ==
    CASE fault = "mkdirTasks" -> {"tasks"}
      [] fault = "mkdirConfig" -> {"config"}
      [] fault = "mkdirAll" -> {"qdgDir", "tasks", "config"}
      [] OTHER -> {}

\* setDimensionCount / setExpectedScore after the range check has passed
setField(d, file, entries, config, fault) ==
    saveConfig(d, file, entries, config,
               FailDirs(fault), fault # "initWrite", fault # "read", fault # "write")

CfgResp(op, threw, error, argDc, argEs, fault, result, created, existed) ==
    [op |-> op, threw |-> threw, error |-> error, argDc |-> argDc, argEs |-> argEs,
     fault |-> fault, result |-> result, created |-> created, existed |-> existed]

NoCfgResp == CfgResp("none", FALSE, "none", Absent, Absent, "none", DEFAULT_CONFIG, <<>>, <<>>)

\* the Partial<QdgConfig> arguments tried with saveConfig
PartialInputs ==
    {Partial(n, Absent) : n \in {0, 3, 7, 11}} \cup {Partial(Absent, n) : n \in {-1, 9}}
        \cup {Partial(3, 9), Partial(Absent, Absent)}

\* documents a user may leave in qdg.config.json by editing it
UserDocs ==
    {CorruptDoc,
     Doc(TRUE, Absent, Absent, FALSE, Absent, Absent),
     Doc(TRUE, 7, Absent, FALSE, Absent, Absent),
     Doc(TRUE, Absent, 9, FALSE, Absent, Absent),
     Doc(TRUE, Absent, Absent, TRUE, 3, 9)}

(***************************************************************************)
(* Record documents.  A text is a code, 0 for the empty string.  A segment *)
(* is one rendering of a template with the texts embedded verbatim.        *)
(***************************************************************************)
EmptyText == 0

Segment(template, taskId, refined, dims) ==
    [template |-> template, taskId |-> taskId, refined |-> refined, dims |-> dims]

TextSize(t) == IF t = EmptyText THEN 0 ELSE 1

\* bytes of a segment: a raw segment is the text alone, a template adds its own
SegmentSize(seg) ==
    IF seg.template = "raw" THEN TextSize(seg.refined) + TextSize(seg.dims)
    ELSE 1 + TextSize(seg.refined) + TextSize(seg.dims)

RECURSIVE ContentSize(_)
ContentSize(content) ==
    IF content = <<>> THEN 0 ELSE SegmentSize(Head(content)) + ContentSize(Tail(content))

\* fs.stat(path).size of an existing file
FileSize(file) == ContentSize(file[1])

\* what fs.writeFile leaves in the file: the data, or nothing when the write
\* comes out empty
Written(seg, outcome) ==
    IF outcome = "empty" \/ SegmentSize(seg) = 0 THEN <<>> ELSE <<seg>>

\* fs.writeFile appending to the file instead of replacing its content
WriteFileAppends(file, seg, outcome) ==
    IF file = <<>> THEN <<Written(seg, outcome)>> ELSE <<file[1] \o Written(seg, outcome)>>

\* fs.writeFile(path, data): the file now holds data and nothing else
WriteFile(file, seg, outcome) == <<Written(seg, outcome)>>

(***************************************************************************)
(* The record writers of QdgDirectoryManager.  Each writes into the task   *)
(* folder tasks/<taskId>; the file <taskId>_<kind>.md is inner[kind].      *)
(***************************************************************************)
\* the size check that does not notice an empty file
SizeIsZeroNeverDetected(file) == FALSE

\* fileStats.size === 0
SizeIsZero(file) == FileSize(file) = 0

\* the steps the writers share: fs.mkdir(taskDir, {recursive: true}), one
\* fs.writeFile per file, fs.stat of each and the size check; the paths are
\* returned only when nothing threw.  segs maps each kind written to its
\* rendering, outcomes to what its writeFile does ("ok", "empty", "throw").
SaveFiles(d, entries, taskId, segs, mkdirOk, outcomes, pos) ==
    LET at == IndexOf(entries, taskId) IN
    IF ~mkdirOk \/ (at # 0 /\ ~entries[at].isDir)
    THEN [dirs |-> d, entries |-> entries, threw |-> TRUE, paths |-> {}]
    ELSE
    LET base == IF at = 0 THEN DirEntry(taskId) ELSE entries[at]
        inner2 == [k \in Kinds |->
                      IF k \in DOMAIN segs /\ outcomes[k] # "throw"
                      THEN WriteFile(base.inner[k], segs[k], outcomes[k])
                      ELSE base.inner[k]]
        e2 == [base EXCEPT !.inner = inner2]
        entries2 == IF at = 0 THEN InsertAt(entries, pos, e2)
                    ELSE [entries EXCEPT ![at] = e2]
        threw == \/ \E k \in DOMAIN segs : outcomes[k] = "throw"
                 \/ \E k \in DOMAIN segs : SizeIsZero(inner2[k])
    IN [dirs |-> MkdirRecursive(d, "tasks"), entries |-> entries2, threw |-> threw,
        paths |-> IF threw THEN {} ELSE DOMAIN segs]

\* saveDimensionStandards: the standards document at <taskId>_dimension.md,
\* read back and checked to include the taskId and the dimensions text
saveDimensionStandards(d, entries, taskId, dims, mkdirOk, outcome, pos) ==
    LET seg == Segment("standards", taskId, EmptyText, dims)
        r == SaveFiles(d, entries, taskId, [k \in {"dimension"} |-> seg], mkdirOk,
                       [k \in {"dimension"} |-> outcome], pos)
        saved == r.entries[IndexOf(r.entries, taskId)].inner["dimension"][1]
    IN IF ~r.threw /\ ~(saved # <<>> /\ Head(saved).taskId = taskId /\ Head(saved).dims = dims)
       THEN [r EXCEPT !.threw = TRUE, !.paths = {}]
       ELSE r

\* saveCleanOutput: description and dimensions in <taskId>_output.md
saveCleanOutput(d, entries, taskId, refined, dims, mkdirOk, outcome, pos) ==
    SaveFiles(d, entries, taskId,
              [k \in {"output"} |-> Segment("clean", taskId, refined, dims)], mkdirOk,
              [k \in {"output"} |-> outcome], pos)

\* saveDualOutputFiles: the description alone in <taskId>_task.md and the
\* dimensions alone in <taskId>_dimensions.md
saveDualOutputFiles(d, entries, taskId, refined, dims, mkdirOk, outcomeTask, outcomeDims, pos) ==
    SaveFiles(d, entries, taskId,
              [k \in {"task", "dimensions"} |->
                  IF k = "task" THEN Segment("raw", taskId, refined, EmptyText)
                  ELSE Segment("raw", taskId, EmptyText, dims)], mkdirOk,
              [k \in {"task", "dimensions"} |->
                  IF k = "task" THEN outcomeTask ELSE outcomeDims], pos)

\* saveFinalDimensionStandards clearing the tasks directory before it writes
saveFinalDimensionStandardsClearsTasks(d, entries, taskId, refined, dims, mkdirOk, outcome, pos) ==
    SaveFiles(d, <<>>, taskId,
              [k \in {"dimension"} |-> Segment("final", taskId, refined, dims)], mkdirOk,
              [k \in {"dimension"} |-> outcome], 1)

\* saveFinalDimensionStandards: the final document at <taskId>_dimension.md
saveFinalDimensionStandards(d, entries, taskId, refined, dims, mkdirOk, outcome, pos) ==
    SaveFiles(d, entries, taskId,
              [k \in {"dimension"} |-> Segment("final", taskId, refined, dims)], mkdirOk,
              [k \in {"dimension"} |-> outcome], pos)

\* outcome of a writer call: the paths returned (as kinds of the task folder),
\* the texts handed in, and what <taskId>_dimension.md held before the call
SaveResp(op, threw, taskId, paths, refined, dims, before) ==
    [op |-> op, threw |-> threw, taskId |-> taskId, paths |-> paths,
     refined |-> refined, dims |-> dims, before |-> before]

NoSaveResp == SaveResp("none", FALSE, <<>>, {}, EmptyText, EmptyText, <<>>)

\* the record file <taskId>_<kind>.md: <<>> when it or its folder is missing
RecordFile(entries, taskId, kind) ==
    IF IndexOf(entries, taskId) = 0 THEN <<>>
    ELSE entries[IndexOf(entries, taskId)].inner[kind]

\* readDimensionStandards without its catch block
readDimensionStandardsNoCatch(entries, taskId, readOk) ==
    LET file == RecordFile(entries, taskId, "dimension") IN
    IF file = <<>> \/ ~readOk THEN [threw |-> TRUE, content |-> <<>>]
    ELSE [threw |-> FALSE, content |-> file]

\* readDimensionStandards: [threw, content], content <<>> for null and
\* <<text>> for the text of <taskId>_dimension.md
readDimensionStandards(entries, taskId, readOk) ==
    LET file == RecordFile(entries, taskId, "dimension") IN
    IF file = <<>> \/ ~readOk THEN [threw |-> FALSE, content |-> <<>>]
    ELSE [threw |-> FALSE, content |-> file]

(***************************************************************************)
(* The flat record writer called by save_quality_dimensions.               *)
(***************************************************************************)
MaxNameLen == 50

IllegalChars == {"/", ":", "?"}

\* strip the characters illegal in file names
RECURSIVE StripIllegal(_)
StripIllegal(name) ==
    IF name = <<>> THEN <<>>
    ELSE IF Head(name) \in IllegalChars THEN StripIllegal(Tail(name))
    ELSE <<Head(name)>> \o StripIllegal(Tail(name))

\* collapse each run of whitespace to one separator
RECURSIVE CollapseSpaces(_, _)
CollapseSpaces(name, inRun) ==
    IF name = <<>> THEN <<>>
    ELSE IF Head(name) = " "
         THEN (IF inRun THEN <<>> ELSE <<"_">>) \o CollapseSpaces(Tail(name), TRUE)
         ELSE <<Head(name)>> \o CollapseSpaces(Tail(name), FALSE)

sanitizeName(rawName) ==
    LET clean == CollapseSpaces(StripIllegal(rawName), FALSE)
    IN SubSeq(clean, 1, IF Len(clean) < MaxNameLen THEN Len(clean) ELSE MaxNameLen)

\* tasks/<taskId>_<sanitize(taskName)>.md
FlatFileName(taskId, taskName) ==
    taskId \o <<"_">> \o sanitizeName(taskName) \o <<".md">>

\* saveFinalDimensionStandardsFlat: [dirs, entries, threw, path]
saveFinalDimensionStandardsFlat(d, entries, taskId, taskName, refined, dims, fault, pos) ==
    LET d2 == MkdirRecursive(d, "tasks")
        name == FlatFileName(taskId, taskName)
        seg == Segment("final", taskId, refined, dims)
        at == IndexOf(entries, name)
        old == IF at = 0 THEN <<>> ELSE entries[at].file
        new == FileEntry(name, WriteFile(old, seg, fault)[1])
        written == IF at = 0 THEN InsertAt(entries, pos, new)
                   ELSE [entries EXCEPT ![at] = new]
    IN IF fault = "write"
       THEN [dirs |-> d2, entries |-> entries, threw |-> TRUE, path |-> <<>>]
       ELSE IF FileSize(new.file) = 0
            THEN [dirs |-> d2, entries |-> written, threw |-> TRUE, path |-> <<>>]
            ELSE [dirs |-> d2, entries |-> written, threw |-> FALSE, path |-> name]

(***************************************************************************)
(* The tools of index.ts.                                                  *)
(***************************************************************************)
DefaultTargetScore == 8

ToolResp(op, isError, warning, hash, existing, taskId, created, dimensionCount, expectedScore, fault, path) ==
    [op |-> op, isError |-> isError, warning |-> warning, hash |-> hash,
     existing |-> existing, taskId |-> taskId, created |-> created,
     dimensionCount |-> dimensionCount, expectedScore |-> expectedScore,
     fault |-> fault, path |-> path, input |-> <<>>]

\* the response to a call that was handed the task analysis input
Submitted(resp, input) == [resp EXCEPT !.input = input]

NoToolResp == ToolResp("none", FALSE, FALSE, <<>>, <<>>, <<>>, FALSE, Absent, Absent, "none", <<>>)

ToolError(op, hash, fault) ==
    ToolResp(op, TRUE, FALSE, hash, <<>>, <<>>, FALSE, Absent, Absent, fault, <<>>)

\* the task analyses handed to generate_quality_dimensions_prompt: <<>> is a
\* taskAnalysisJson that is not valid JSON
TaskJsonInputs ==
    {<<>>,
     <<TaskAnalysis(1, 1, 1, <<<<1, 2>>>>, <<<<>>>>)>>,
     <<TaskAnalysis(1, 1, 1, <<<<2, 1>>>>, <<<<>>>>)>>,
     <<TaskAnalysis(2, 1, 1, <<<<1>>>>, <<<<1>>>>)>>,
     <<TaskAnalysis(3, 1, 1, <<>>, <<<<1>>>>)>>,
     <<WithComplexity(TaskAnalysis(2, 1, 1, <<<<1>>>>, <<<<1>>>>), 9)>>,
     <<WithTaskName(TaskAnalysis(2, 1, 1, <<<<1>>>>, <<<<1>>>>), <<"W", "B">>)>>,
     <<TaskAnalysis(Absent, 1, 1, <<<<1>>>>, <<<<1>>>>)>>}

\* task.keyElements.join / task.objectives.join on an undefined array
PromptThrows(task) == task.keyElements = <<>> \/ task.objectives = <<>>

\* the mkdir failure leaving the handler through its outer catch
initErrorRethrown(op, hash, dimensionCount, expectedScore, fault) ==
    ToolError(op, hash, fault)

\* catch (initError): the prompt is kept and a warning appended to it
initErrorResponse(op, hash, dimensionCount, expectedScore, fault) ==
    ToolResp(op, FALSE, TRUE, hash, <<>>, <<>>, FALSE, dimensionCount, expectedScore,
             fault, <<>>)

\* targetScore declared optional, without a default
targetScoreOptional(targetScore) == targetScore

\* targetScore: z.number().default(8)
targetScoreDefault(targetScore) ==
    IF targetScore = Absent THEN DefaultTargetScore ELSE targetScore

\* targetScore ?? await this.configManager.getExpectedScore(projectPath)
expectedScoreOf(targetScore, file) ==
    IF targetScore # Absent THEN targetScore ELSE getExpectedScore(file, TRUE)

\* one call of the handler with its arguments and the fault met
generateQualityDimensionsPrompt(input, targetScore, fault) ==
        \E i \in {initializeQdgDirectory(dirs, configFile, tasksDir, FailDirs(fault), TRUE)} :
        LET op == "generate_quality_dimensions_prompt" IN
        IF i.threw \/ input = <<>>
        THEN /\ dirs' = i.dirs
             /\ configFile' = i.file
             /\ toolResp' = ToolError(op, <<>>, fault)
             /\ UNCHANGED <<others, tasksDir, clock, cfgResp, saveResp, fp, issued>>
        ELSE
        \E hash \in {taskHash(input[1])} :
        \E existingTaskId \in {IF "tasks" \in i.dirs THEN findExisting(tasksDir, hash)
                                                    ELSE <<>>} :
        LET task == input[1]
            taskId == TaskId(clock, hash)
            dimensionCount == getDimensionCount(i.file, TRUE)
            expectedScore == expectedScoreOf(targetScoreDefault(targetScore), i.file)
        IN
        IF PromptThrows(task)
        THEN /\ dirs' = i.dirs
             /\ configFile' = i.file
             /\ toolResp' = ToolError(op, hash, fault)
             /\ UNCHANGED <<others, tasksDir, clock, cfgResp, saveResp, fp, issued>>
        ELSE IF existingTaskId # <<>>
        THEN /\ dirs' = i.dirs
             /\ configFile' = i.file
             /\ toolResp' = Submitted(ToolResp(op, FALSE, FALSE, hash, existingTaskId,
                                               existingTaskId, FALSE, dimensionCount,
                                               expectedScore, fault, <<>>), input)
             /\ issued' = issued \cup {<<hash, existingTaskId>>}
             /\ UNCHANGED <<others, tasksDir, clock, cfgResp, saveResp, fp>>
        ELSE IF fault = "mkdirTask"
        THEN /\ dirs' = i.dirs
             /\ configFile' = i.file
             /\ toolResp' = Submitted(initErrorResponse(op, hash, dimensionCount,
                                                        expectedScore, fault), input)
             /\ UNCHANGED <<others, tasksDir, clock, cfgResp, saveResp, fp, issued>>
        ELSE /\ Len(tasksDir) < MaxEntries
             /\ dirs' = MkdirRecursive(i.dirs, "tasks")
             /\ configFile' = i.file
             /\ \E pos \in 1..(Len(tasksDir) + 1) :
                    tasksDir' = InsertAt(tasksDir, pos, DirEntry(taskId))
             /\ toolResp' = Submitted(ToolResp(op, FALSE, FALSE, hash, <<>>, taskId, TRUE,
                                               dimensionCount, expectedScore, fault, <<>>),
                                      input)
             /\ issued' = issued \cup {<<hash, taskId>>}
             /\ UNCHANGED <<others, clock, cfgResp, saveResp, fp>>

GenerateQualityDimensionsPrompt ==
    \E input \in TaskJsonInputs, targetScore \in {Absent, 6},
       fault \in {"none", "mkdirAll", "mkdirTask"} :
        generateQualityDimensionsPrompt(input, targetScore, fault)

\* task names carried by the optional taskAnalysisJson of save_quality_dimensions:
\* <<>> when the argument is omitted
TaskNameInputs == {<<>>, <<<<"W", " ", "B">>>>, <<<<"B", "/", " ", " ", "W", "?">>>>}

UnnamedTask == <<"UnnamedTask">>

TextInputs == {<<1, 1>>, <<2, 2>>}

\* the task ids handed to save_quality_dimensions: the ones in the store, and
\* one the server has not issued
SaveTaskIdInputs ==
    {tasksDir[i].name : i \in {j \in DOMAIN tasksDir : tasksDir[j].isDir}}
        \cup {TaskId(0, <<"0", "1">>)}

\* the handler refusing a task id that generate_quality_dimensions_prompt did
\* not issue
saveQualityDimensionsIssuedOnly(taskId, nameInput, texts, fault, pos) ==
        LET taskName == IF nameInput = <<>> THEN UnnamedTask ELSE nameInput[1] IN
        \E i \in {initializeQdgDirectory(dirs, configFile, tasksDir, FailDirs(fault), TRUE)} :
        \E r \in {saveFinalDimensionStandardsFlat(i.dirs, tasksDir, taskId, taskName,
                                                  texts[1], texts[2], fault, pos)} :
        LET op == "save_quality_dimensions" IN
        IF i.threw \/ ~\E pair \in issued : pair[2] = taskId
        THEN /\ dirs' = i.dirs
             /\ configFile' = i.file
             /\ toolResp' = ToolError(op, <<>>, fault)
             /\ UNCHANGED <<others, tasksDir, clock, cfgResp, saveResp, fp, issued>>
        ELSE /\ Len(r.entries) <= MaxEntries
             /\ dirs' = r.dirs
             /\ configFile' = i.file
             /\ tasksDir' = r.entries
             /\ toolResp' = ToolResp(op, r.threw, FALSE, <<>>, <<>>, taskId, FALSE,
                                     Absent, Absent, fault, r.path)
             /\ UNCHANGED <<others, clock, cfgResp, saveResp, fp, issued>>

\* one call of the handler with its arguments, the fault met and the place
\* readdir gives a new record
saveQualityDimensions(taskId, nameInput, texts, fault, pos) ==
        LET taskName == IF nameInput = <<>> THEN UnnamedTask ELSE nameInput[1] IN
        \E i \in {initializeQdgDirectory(dirs, configFile, tasksDir, FailDirs(fault), TRUE)} :
        \E r \in {saveFinalDimensionStandardsFlat(i.dirs, tasksDir, taskId, taskName,
                                                  texts[1], texts[2], fault, pos)} :
        LET op == "save_quality_dimensions" IN
        IF i.threw
        THEN /\ dirs' = i.dirs
             /\ configFile' = i.file
             /\ toolResp' = ToolError(op, <<>>, fault)
             /\ UNCHANGED <<others, tasksDir, clock, cfgResp, saveResp, fp, issued>>
        ELSE /\ Len(r.entries) <= MaxEntries
             /\ dirs' = r.dirs
             /\ configFile' = i.file
             /\ tasksDir' = r.entries
             /\ toolResp' = ToolResp(op, r.threw, FALSE, <<>>, <<>>, taskId, FALSE,
                                     Absent, Absent, fault, r.path)
             /\ UNCHANGED <<others, clock, cfgResp, saveResp, fp, issued>>

SaveQualityDimensions ==
    \E taskId \in SaveTaskIdInputs, nameInput \in TaskNameInputs, texts \in TextInputs,
       fault \in {"none", "write", "mkdirConfig"} :
        \E pos \in NewEntryPositions(tasksDir,
                        FlatFileName(taskId, IF nameInput = <<>> THEN UnnamedTask
                                             ELSE nameInput[1])) :
            saveQualityDimensions(taskId, nameInput, texts, fault, pos)

\* generate_task_analysis_prompt: ensureQdgDirectory, then the prompt text
GenerateTaskAnalysisPrompt ==
    \E fault \in {"none", "mkdirTasks", "mkdirConfig", "initWrite"} :
        \E i \in {initializeQdgDirectory(dirs, configFile, tasksDir, FailDirs(fault),
                                         fault # "initWrite")} :
        LET op == "generate_task_analysis_prompt" IN
        /\ dirs' = i.dirs
        /\ configFile' = i.file
        /\ toolResp' = IF i.threw THEN ToolError(op, <<>>, fault)
                       ELSE ToolResp(op, FALSE, FALSE, <<>>, <<>>, <<>>, FALSE,
                                     Absent, Absent, fault, <<>>)
        /\ UNCHANGED <<others, tasksDir, clock, cfgResp, saveResp, fp, issued>>

\* time passes
Tick ==
    /\ clock < MaxTicks
    /\ clock' = clock + 1
    /\ UNCHANGED <<others, dirs, configFile, tasksDir, cfgResp, toolResp, saveResp, fp, issued>>


(***************************************************************************)
(* The server variant whose tools take an optional project path            *)
(* (src/unnamed/part_001).                                                 *)
(***************************************************************************)
\* a path: absolute or relative, and its segments
Path(abs, segs) == [abs |-> abs, segs |-> segs]

\* process.cwd()
Cwd == Path(TRUE, <<"p">>)

\* the empty string
EmptyPath == Path(FALSE, <<>>)

\* path.resolve(p): p when it is absolute, else p taken from the working directory
Resolve(p) == IF p.abs THEN p ELSE Path(TRUE, Cwd.segs \o p.segs)

\* path.isAbsolute(p)
IsAbsolute(p) == p.abs

\* the directories on disk
ExistingDirs == {<<"p">>, <<"p", "q">>}

\* fs.existsSync(p) of an absolute path
ExistsSync(p) == p.segs \in ExistingDirs

\* the projectPath argument: <<>> when it is omitted
ProjectPathInputs ==
    {<<>>, <<EmptyPath>>, <<Path(TRUE, <<"p">>)>>, <<Path(TRUE, <<"x">>)>>,
     <<Path(FALSE, <<"q">>)>>, <<Path(FALSE, <<"x">>)>>}

\* getProjectPath falling back on the working directory, as src/src/index.ts does
getProjectPathOrCwd(providedPath) ==
    LET resolvedPath == IF providedPath = <<>> \/ providedPath[1] = EmptyPath
                        THEN Cwd ELSE Resolve(providedPath[1])
    IN IF ~ExistsSync(resolvedPath)
       THEN [threw |-> TRUE, message |-> "Project path does not exist", path |-> <<>>]
       ELSE [threw |-> FALSE, message |-> "none", path |-> <<resolvedPath.segs>>]

\* getProjectPath: [threw, message, path], path <<>> for null
getProjectPath(providedPath) ==
    IF providedPath = <<>> \/ providedPath[1] = EmptyPath
    THEN [threw |-> FALSE, message |-> "none", path |-> <<>>]
    ELSE LET resolvedPath == Resolve(providedPath[1]) IN
         IF ~IsAbsolute(resolvedPath)
         THEN [threw |-> TRUE, message |-> "Project path must be absolute", path |-> <<>>]
         ELSE IF ~ExistsSync(resolvedPath)
         THEN [threw |-> TRUE, message |-> "Project path does not exist", path |-> <<>>]
         ELSE [threw |-> FALSE, message |-> "none", path |-> <<resolvedPath.segs>>]

\* the .qdg tree of one directory: none before the first call
NoQdg == [dirs |-> {}, file |-> <<>>, entries |-> <<>>]

NoProjects == [d \in ExistingDirs |-> NoQdg]

OptResp(op, provided, isError, message, path, taskId, dimensionCount, expectedScore, content) ==
    [op |-> op, provided |-> provided, isError |-> isError, message |-> message,
     path |-> path, taskId |-> taskId, dimensionCount |-> dimensionCount,
     expectedScore |-> expectedScore, content |-> content]

NoOptResp == OptResp("none", <<>>, FALSE, "none", <<>>, <<>>, Absent, Absent, <<>>)

OptError(op, provided, message) ==
    OptResp(op, provided, TRUE, message, <<>>, <<>>, Absent, Absent, <<>>)

\* ensureQdgDirectory: [threw, message, path, qdg], qdg the tree it leaves at path
ensureQdgDirectory(projectPath, fault) ==
    LET g == getProjectPath(projectPath) IN
    IF g.threw \/ g.path = <<>>
    THEN [threw |-> g.threw, message |-> g.message, path |-> <<>>, qdg |-> NoQdg]
    ELSE LET q == projects[g.path[1]]
             i == initializeQdgDirectory(q.dirs, q.file, q.entries, FailDirs(fault), TRUE)
         IN [threw |-> i.threw, message |-> IF i.threw THEN "io" ELSE "none",
             path |-> g.path,
             qdg |-> [dirs |-> i.dirs, file |-> i.file, entries |-> q.entries]]

\* the tree at path replaced by qdg; no path, no change
WithQdg(path, qdg) ==
    IF path = <<>> THEN projects ELSE [projects EXCEPT ![path[1]] = qdg]

\* generate_task_analysis_prompt of the variant
optGenerateTaskAnalysisPrompt(projectPath, fault) ==
    \E e \in {ensureQdgDirectory(projectPath, fault)} :
    LET op == "generate_task_analysis_prompt" IN
    /\ projects' = WithQdg(e.path, e.qdg)
    /\ optResp' = IF e.threw THEN OptError(op, projectPath, e.message)
                  ELSE OptResp(op, projectPath, FALSE, "none", e.path, <<>>,
                               Absent, Absent, <<>>)
    /\ UNCHANGED <<dirs, configFile, tasksDir, clock, cfgResp, toolResp, saveResp,
                   fp, issued, procs>>

OptGenerateTaskAnalysisPrompt ==
    \E projectPath \in ProjectPathInputs, fault \in {"none", "mkdirConfig"} :
        optGenerateTaskAnalysisPrompt(projectPath, fault)

OptTaskJsonInputs ==
    {<<>>,
     <<TaskAnalysis(1, 1, 1, <<<<1, 2>>>>, <<<<>>>>)>>,
     <<TaskAnalysis(3, 1, 1, <<>>, <<<<1>>>>)>>}

\* generate_quality_dimensions_prompt of the variant
optGenerateQualityDimensionsPrompt(projectPath, input, targetScore, fault) ==
    \E e \in {ensureQdgDirectory(projectPath, fault)} :
    LET op == "generate_quality_dimensions_prompt" IN
    IF e.threw \/ input = <<>>
    THEN /\ projects' = WithQdg(e.path, e.qdg)
         /\ optResp' = OptError(op, projectPath, IF e.threw THEN e.message ELSE "parse")
         /\ UNCHANGED <<dirs, configFile, tasksDir, clock, cfgResp, toolResp, saveResp,
                        fp, issued, procs>>
    ELSE
    \E hash \in {taskHash(input[1])} :
    LET task == input[1]
        taskId == TaskId(clock, hash)
        dimensionCount == IF e.path # <<>> THEN getDimensionCount(e.qdg.file, TRUE)
                          ELSE DefaultDimensionCount
        expectedScore == IF targetScore = Absent THEN DefaultTargetScore ELSE targetScore
        existingTaskId == IF e.path # <<>> /\ "tasks" \in e.qdg.dirs
                          THEN findExisting(e.qdg.entries, hash) ELSE <<>>
    IN
    IF PromptThrows(task)
    THEN /\ projects' = WithQdg(e.path, e.qdg)
         /\ optResp' = OptError(op, projectPath, "join")
         /\ UNCHANGED <<dirs, configFile, tasksDir, clock, cfgResp, toolResp, saveResp,
                        fp, issued, procs>>
    ELSE IF e.path = <<>>
    THEN /\ optResp' = OptResp(op, projectPath, FALSE, "none", <<>>, taskId,
                               dimensionCount, expectedScore, <<>>)
         /\ UNCHANGED <<dirs, configFile, tasksDir, clock, cfgResp, toolResp, saveResp,
                        fp, issued, procs, projects>>
    ELSE IF existingTaskId # <<>>
    THEN /\ projects' = WithQdg(e.path, e.qdg)
         /\ optResp' = OptResp(op, projectPath, FALSE, "none", e.path, existingTaskId,
                               dimensionCount, expectedScore, <<>>)
         /\ UNCHANGED <<dirs, configFile, tasksDir, clock, cfgResp, toolResp, saveResp,
                        fp, issued, procs>>
    ELSE IF fault = "mkdirTask"
    THEN /\ projects' = WithQdg(e.path, e.qdg)
         /\ optResp' = OptResp(op, projectPath, FALSE, "warning", e.path, <<>>,
                               dimensionCount, expectedScore, <<>>)
         /\ UNCHANGED <<dirs, configFile, tasksDir, clock, cfgResp, toolResp, saveResp,
                        fp, issued, procs>>
    ELSE /\ Len(e.qdg.entries) < MaxEntries
         /\ \E pos \in 1..(Len(e.qdg.entries) + 1) :
                projects' = WithQdg(e.path,
                                [dirs |-> MkdirRecursive(e.qdg.dirs, "tasks"),
                                 file |-> e.qdg.file,
                                 entries |-> InsertAt(e.qdg.entries, pos, DirEntry(taskId))])
         /\ optResp' = OptResp(op, projectPath, FALSE, "none", e.path, taskId,
                               dimensionCount, expectedScore, <<>>)
         /\ UNCHANGED <<dirs, configFile, tasksDir, clock, cfgResp, toolResp, saveResp,
                        fp, issued, procs>>

OptGenerateQualityDimensionsPrompt ==
    \E projectPath \in ProjectPathInputs, input \in OptTaskJsonInputs,
       targetScore \in {Absent}, fault \in {"none", "mkdirTask"} :
        optGenerateQualityDimensionsPrompt(projectPath, input, targetScore, fault)

OptSaveTaskIdInputs == {TaskId(0, <<"0", "1">>)}

\* save_quality_dimensions of the variant
optSaveQualityDimensions(projectPath, taskId, nameInput, texts, fault) ==
    \E e \in {ensureQdgDirectory(projectPath, fault)} :
    LET op == "save_quality_dimensions"
        taskName == IF nameInput = <<>> THEN UnnamedTask ELSE nameInput[1]
    IN
    IF e.threw
    THEN /\ projects' = WithQdg(e.path, e.qdg)
         /\ optResp' = OptError(op, projectPath, e.message)
         /\ UNCHANGED <<dirs, configFile, tasksDir, clock, cfgResp, toolResp, saveResp,
                        fp, issued, procs>>
    ELSE IF e.path = <<>>
    THEN /\ optResp' = OptResp(op, projectPath, FALSE, "none", <<>>, taskId, Absent, Absent,
                               <<Segment("complete", taskId, texts[1], texts[2])>>)
         /\ UNCHANGED <<dirs, configFile, tasksDir, clock, cfgResp, toolResp, saveResp,
                        fp, issued, procs, projects>>
    ELSE \E pos \in NewEntryPositions(e.qdg.entries, FlatFileName(taskId, taskName)) :
         \E r \in {saveFinalDimensionStandardsFlat(e.qdg.dirs, e.qdg.entries, taskId,
                                                   taskName, texts[1], texts[2], fault, pos)} :
         /\ Len(r.entries) <= MaxEntries
         /\ projects' = WithQdg(e.path, [dirs |-> r.dirs, file |-> e.qdg.file,
                                         entries |-> r.entries])
         /\ optResp' = IF r.threw THEN OptError(op, projectPath, "io")
                       ELSE OptResp(op, projectPath, FALSE, "none", e.path, taskId,
                                    Absent, Absent, <<>>)
         /\ UNCHANGED <<dirs, configFile, tasksDir, clock, cfgResp, toolResp, saveResp,
                        fp, issued, procs>>

OptSaveQualityDimensions ==
    \E projectPath \in ProjectPathInputs, taskId \in OptSaveTaskIdInputs,
       nameInput \in {<<>>}, texts \in TextInputs, fault \in {"none", "write"} :
        optSaveQualityDimensions(projectPath, taskId, nameInput, texts, fault)

NextOptional ==
    \/ OptGenerateTaskAnalysisPrompt
    \/ OptGenerateQualityDimensionsPrompt
    \/ OptSaveQualityDimensions

(***************************************************************************)
(* Calls in flight.  A call runs from one await to the next without        *)
(* interruption; between two awaits of one call the steps of another call  *)
(* may run.                                                                *)
(***************************************************************************)
ProcIds == {1, 2}

Proc(op, pc, arg, read, config, current, hash, taskId, existing, threw) ==
    [op |-> op, pc |-> pc, arg |-> arg, read |-> read, config |-> config,
     current |-> current, hash |-> hash, taskId |-> taskId, existing |-> existing,
     threw |-> threw]

IdleProc ==
    Proc("none", "idle", Absent, DEFAULT_CONFIG, DEFAULT_CONFIG, DEFAULT_CONFIG,
         <<>>, <<>>, <<>>, FALSE)

\* no call in flight
NoProcs == [p \in ProcIds |-> IdleProc]

\* the setter calls tried: [op, arg]
SetterCalls ==
    {<<"setDimensionCount", 3>>, <<"setDimensionCount", 11>>, <<"setExpectedScore", 9>>}

\* the setter handing saveConfig its one field alone
setterPartial(op, config, arg) ==
    IF op = "setDimensionCount" THEN Partial(arg, Absent) ELSE Partial(Absent, arg)

\* config.dimensionCount = count / config.expectedScore = score on the
\* configuration getConfig returned
setterConfig(op, config, arg) ==
    IF op = "setDimensionCount" THEN [config EXCEPT !.dc = arg]
    ELSE [config EXCEPT !.es = arg]

\* a setter is called: the range check, then getConfig is awaited
BeginSetter(p) ==
    /\ procs[p].pc = "idle"
    /\ \E call \in SetterCalls :
          LET ok == IF call[1] = "setDimensionCount" THEN DimensionCountInRange(call[2])
                    ELSE ExpectedScoreInRange(call[2])
          IN procs' = [procs EXCEPT ![p] = [IdleProc EXCEPT !.op = call[1], !.arg = call[2],
                                                           !.pc = IF ok THEN "read" ELSE "done",
                                                           !.threw = ~ok]]
    /\ UNCHANGED <<dirs, configFile, tasksDir, clock, cfgResp, toolResp, saveResp, fp,
                   issued, projects, optResp>>

\* getConfig of the setter resolves; saveConfig is called and awaits
\* initializeQdgDirectory
SetterRead(p) ==
    /\ procs[p].pc = "read"
    /\ \E config \in {getConfig(configFile, TRUE)} :
          procs' = [procs EXCEPT ![p].read = config,
                                 ![p].config = setterConfig(procs[p].op, config, procs[p].arg),
                                 ![p].pc = "init"]
    /\ UNCHANGED <<dirs, configFile, tasksDir, clock, cfgResp, toolResp, saveResp, fp,
                   issued, projects, optResp>>

\* initializeQdgDirectory of saveConfig resolves; getConfig is awaited
SetterInit(p) ==
    /\ procs[p].pc = "init"
    /\ \E i \in {initializeQdgDirectory(dirs, configFile, tasksDir, {}, TRUE)} :
          /\ dirs' = i.dirs
          /\ configFile' = i.file
          /\ procs' = [procs EXCEPT ![p].pc = IF i.threw THEN "done" ELSE "reread",
                                    ![p].threw = i.threw]
    /\ UNCHANGED <<tasksDir, clock, cfgResp, toolResp, saveResp, fp, issued,
                   projects, optResp>>

\* getConfig of saveConfig resolves; the merge is made and writeFile awaited
SetterReread(p) ==
    /\ procs[p].pc = "reread"
    /\ procs' = [procs EXCEPT ![p].current = getConfig(configFile, TRUE), ![p].pc = "write"]
    /\ UNCHANGED <<dirs, configFile, tasksDir, clock, cfgResp, toolResp, saveResp, fp,
                   issued, projects, optResp>>

\* writeFile of saveConfig resolves and the setter returns
SetterWrite(p) ==
    /\ procs[p].pc = "write"
    /\ configFile' = <<Spread(procs[p].current, procs[p].config)>>
    /\ procs' = [procs EXCEPT ![p].pc = "done"]
    /\ UNCHANGED <<dirs, tasksDir, clock, cfgResp, toolResp, saveResp, fp, issued,
                   projects, optResp>>

\* the caller has the outcome and is free to call again
Return(p) ==
    /\ procs[p].pc = "done"
    /\ procs' = [procs EXCEPT ![p] = IdleProc]
    /\ UNCHANGED <<dirs, configFile, tasksDir, clock, cfgResp, toolResp, saveResp, fp,
                   issued, projects, optResp>>

\* the task analyses handed to the generate calls in flight
GenerateInputs ==
    {<<>>,
     <<TaskAnalysis(1, 1, 1, <<<<1, 2>>>>, <<<<>>>>)>>,
     <<TaskAnalysis(3, 1, 1, <<>>, <<<<1>>>>)>>}

\* a mkdir that creates nothing when an entry holds the fingerprint
mkdirTaskUnlessRecorded(entries, taskId, hash, pos) ==
    IF \E i \in DOMAIN entries : Includes(entries[i].name, hash) THEN entries
    ELSE InsertAt(entries, pos, DirEntry(taskId))

\* fs.promises.mkdir(taskDir, {recursive: true}): nothing to do when the
\* directory is there
mkdirTask(entries, taskId, hash, pos) ==
    IF IndexOf(entries, taskId) # 0 THEN entries
    ELSE InsertAt(entries, pos, DirEntry(taskId))

\* generate_quality_dimensions_prompt is called and awaits ensureQdgDirectory
BeginGenerate(p) ==
    /\ procs[p].pc = "idle"
    /\ \E input \in GenerateInputs :
          procs' = [procs EXCEPT ![p] = [IdleProc EXCEPT
                                            !.op = "generate_quality_dimensions_prompt",
                                            !.arg = input, !.pc = "init"]]
    /\ UNCHANGED <<dirs, configFile, tasksDir, clock, cfgResp, toolResp, saveResp, fp,
                   issued, projects, optResp>>

\* ensureQdgDirectory resolves; the analysis is parsed and hashed, the time
\* taken, the tasks directory searched, and generateDimensionsPrompt awaited
GenerateLookup(p) ==
    /\ procs[p].pc = "init"
    /\ \E i \in {initializeQdgDirectory(dirs, configFile, tasksDir, {}, TRUE)} :
          /\ dirs' = i.dirs
          /\ configFile' = i.file
          /\ IF i.threw \/ procs[p].arg = <<>>
             THEN procs' = [procs EXCEPT ![p].pc = "done", ![p].threw = TRUE]
             ELSE \E hash \in {taskHash(procs[p].arg[1])} :
                     procs' = [procs EXCEPT
                                  ![p].hash = hash,
                                  ![p].taskId = TaskId(clock, hash),
                                  ![p].existing = IF "tasks" \in i.dirs
                                                  THEN findExisting(tasksDir, hash)
                                                  ELSE <<>>,
                                  ![p].pc = "prompt"]
    /\ UNCHANGED <<tasksDir, clock, cfgResp, toolResp, saveResp, fp, issued,
                   projects, optResp>>

\* generateDimensionsPrompt resolves; a record found is reported, else the
\* mkdir of the task directory is awaited
GeneratePrompt(p) ==
    /\ procs[p].pc = "prompt"
    /\ procs' = IF PromptThrows(procs[p].arg[1])
                THEN [procs EXCEPT ![p].pc = "done", ![p].threw = TRUE]
                ELSE IF procs[p].existing # <<>>
                THEN [procs EXCEPT ![p].current = getConfig(configFile, TRUE),
                                   ![p].taskId = procs[p].existing, ![p].pc = "done"]
                ELSE [procs EXCEPT ![p].current = getConfig(configFile, TRUE),
                                   ![p].pc = "mkdir"]
    /\ UNCHANGED <<dirs, configFile, tasksDir, clock, cfgResp, toolResp, saveResp, fp,
                   issued, projects, optResp>>

\* mkdir settles: the new task directory is reported, or the failure is
\* turned into a warning and no Task ID is reported
GenerateMkdir(p) ==
    /\ procs[p].pc = "mkdir"
    /\ \E fault \in {"none", "mkdirTask"} :
          IF fault = "mkdirTask"
          THEN /\ procs' = [procs EXCEPT ![p].pc = "done", ![p].taskId = <<>>]
               /\ UNCHANGED <<dirs, tasksDir>>
          ELSE /\ \E pos \in 1..(Len(tasksDir) + 1) :
                      tasksDir' = mkdirTask(tasksDir, procs[p].taskId, procs[p].hash, pos)
               /\ Len(tasksDir') <= MaxEntries
               /\ dirs' = MkdirRecursive(dirs, "tasks")
               /\ procs' = [procs EXCEPT ![p].pc = "done"]
    /\ UNCHANGED <<configFile, clock, cfgResp, toolResp, saveResp, fp, issued,
                   projects, optResp>>

NextGenerate ==
    \/ Tick
    \/ \E p \in ProcIds :
        \/ BeginGenerate(p)
        \/ GenerateLookup(p)
        \/ GeneratePrompt(p)
        \/ GenerateMkdir(p)
        \/ Return(p)

NextSetters ==
    \E p \in ProcIds :
        \/ BeginSetter(p)
        \/ SetterRead(p)
        \/ SetterInit(p)
        \/ SetterReread(p)
        \/ SetterWrite(p)
        \/ Return(p)

Init ==
    /\ dirs = {}
    /\ configFile = <<>>
    /\ tasksDir = <<>>
    /\ clock = 0
    /\ cfgResp = NoCfgResp
    /\ toolResp = NoToolResp
    /\ saveResp = NoSaveResp
    /\ fp = 0
    /\ issued = {}
    /\ projects = NoProjects
    /\ optResp = NoOptResp
    /\ procs = NoProcs

InitializeQdgDirectory ==
    \E fault \in {"none", "mkdirTasks", "mkdirConfig", "mkdirAll", "initWrite"} :
        LET r == initializeQdgDirectory(dirs, configFile, tasksDir,
                                        FailDirs(fault), fault # "initWrite") IN
        /\ dirs' = r.dirs
        /\ configFile' = r.file
        /\ cfgResp' = CfgResp("initializeQdgDirectory", r.threw,
                              IF r.threw THEN "io" ELSE "none", Absent, Absent,
                              fault, DEFAULT_CONFIG, r.created, r.existed)
        /\ UNCHANGED <<others, tasksDir, clock, toolResp, saveResp, fp, issued>>

GetConfig ==
    \E fault \in {"none", "read"} :
        LET r == getConfigResult(configFile, fault # "read") IN
        /\ cfgResp' = CfgResp("getConfig", r.threw, IF r.threw THEN "io" ELSE "none",
                              Absent, Absent, fault, r.config, <<>>, <<>>)
        /\ UNCHANGED <<others, dirs, configFile, tasksDir, clock, toolResp, saveResp, fp, issued>>

SaveConfig ==
    \E config \in PartialInputs, fault \in {"none", "read", "write"} :
        LET r == setField(dirs, configFile, tasksDir, config, fault) IN
        /\ dirs' = r.dirs
        /\ configFile' = r.file
        /\ cfgResp' = CfgResp("saveConfig", r.threw, IF r.threw THEN "io" ELSE "none",
                              config.dc, config.es, fault, DEFAULT_CONFIG, <<>>, <<>>)
        /\ UNCHANGED <<others, tasksDir, clock, toolResp, saveResp, fp, issued>>

\* setDimensionCount making sure of the .qdg tree before it checks the range
SetDimensionCountChecksLate ==
    \E count \in Numbers, fault \in {"none"} :
        LET i == initializeQdgDirectory(dirs, configFile, tasksDir, {}, TRUE)
            config == [getConfig(i.file, TRUE) EXCEPT !.dc = count]
            r == setField(dirs, configFile, tasksDir, config, fault) IN
        IF ~DimensionCountInRange(count)
        THEN /\ dirs' = i.dirs
             /\ configFile' = i.file
             /\ cfgResp' = CfgResp("setDimensionCount", TRUE, "range", count, Absent,
                                   fault, DEFAULT_CONFIG, <<>>, <<>>)
             /\ UNCHANGED <<others, tasksDir, clock, toolResp, saveResp, fp, issued>>
        ELSE /\ dirs' = r.dirs
             /\ configFile' = r.file
             /\ cfgResp' = CfgResp("setDimensionCount", r.threw,
                                   IF r.threw THEN "io" ELSE "none", count, Absent,
                                   fault, DEFAULT_CONFIG, <<>>, <<>>)
             /\ UNCHANGED <<others, tasksDir, clock, toolResp, saveResp, fp, issued>>

SetDimensionCount ==
    \E count \in Numbers, fault \in {"none"} :
        IF ~DimensionCountInRange(count)
        THEN /\ cfgResp' = CfgResp("setDimensionCount", TRUE, "range", count, Absent,
                                   fault, DEFAULT_CONFIG, <<>>, <<>>)
             /\ UNCHANGED <<others, dirs, configFile, tasksDir, clock, toolResp, saveResp, fp, issued>>
        ELSE LET config == [getConfig(configFile, fault # "read") EXCEPT !.dc = count]
                 r == setField(dirs, configFile, tasksDir, config, fault) IN
             /\ dirs' = r.dirs
             /\ configFile' = r.file
             /\ cfgResp' = CfgResp("setDimensionCount", r.threw,
                                   IF r.threw THEN "io" ELSE "none", count, Absent,
                                   fault, DEFAULT_CONFIG, <<>>, <<>>)
             /\ UNCHANGED <<others, tasksDir, clock, toolResp, saveResp, fp, issued>>

SetExpectedScore ==
    \E score \in Numbers, fault \in {"none"} :
        IF ~ExpectedScoreInRange(score)
        THEN /\ cfgResp' = CfgResp("setExpectedScore", TRUE, "range", Absent, score,
                                   fault, DEFAULT_CONFIG, <<>>, <<>>)
             /\ UNCHANGED <<others, dirs, configFile, tasksDir, clock, toolResp, saveResp, fp, issued>>
        ELSE LET config == [getConfig(configFile, fault # "read") EXCEPT !.es = score]
                 r == setField(dirs, configFile, tasksDir, config, fault) IN
             /\ dirs' = r.dirs
             /\ configFile' = r.file
             /\ cfgResp' = CfgResp("setExpectedScore", r.threw,
                                   IF r.threw THEN "io" ELSE "none", Absent, score,
                                   fault, DEFAULT_CONFIG, <<>>, <<>>)
             /\ UNCHANGED <<others, tasksDir, clock, toolResp, saveResp, fp, issued>>

\* the user edits .qdg/config/qdg.config.json by hand
UserEditsConfig ==
    /\ "config" \in dirs
    /\ \E doc \in UserDocs : configFile' = <<doc>>
    /\ cfgResp' = NoCfgResp
    /\ UNCHANGED <<others, dirs, tasksDir, clock, toolResp, saveResp, fp, issued>>

NextConfig ==
    \/ InitializeQdgDirectory
    \/ GetConfig
    \/ SaveConfig
    \/ SetDimensionCount
    \/ SetExpectedScore
    \/ UserEditsConfig

SpecConfig == Init /\ [][NextConfig]_vars

\* the operations that write the settings, and nothing else
NextSettings ==
    \/ InitializeQdgDirectory
    \/ SaveConfig
    \/ SetDimensionCount
    \/ SetExpectedScore

SpecSettings == Init /\ [][NextSettings]_vars

NextTools ==
    \/ Tick
    \/ GenerateQualityDimensionsPrompt
    \/ SaveQualityDimensions

SpecTools == Init /\ [][NextTools]_vars

\* generate_quality_dimensions_prompt alone, called again and again over time
NextLookup ==
    \/ Tick
    \/ GenerateQualityDimensionsPrompt

SpecLookup == Init /\ [][NextLookup]_vars

\* the two prompt tools of the workflow, stage 1 and stage 2
NextAnalysis ==
    \/ Tick
    \/ GenerateTaskAnalysisPrompt
    \/ GenerateQualityDimensionsPrompt

SpecAnalysis == Init /\ [][NextAnalysis]_vars

\* the generate tool on a project whose settings document the user edits
NextPrompt ==
    \/ UserEditsConfig
    \/ GenerateQualityDimensionsPrompt

SpecPrompt == Init /\ [][NextPrompt]_vars

(***************************************************************************)
(* The record writers called on one project.                               *)
(***************************************************************************)
StoreTaskIds == {TaskId(0, <<"0", "1">>)}

\* (description, dimensions) texts: the description may be the empty string
StoreTexts == TextInputs \cup {<<EmptyText, 1>>}

WriteOutcomes == {"ok", "empty", "throw"}

SaveDimensionStandards ==
    \E taskId \in StoreTaskIds, texts \in StoreTexts, mkdirOk \in BOOLEAN,
       outcome \in WriteOutcomes :
        \E pos \in NewEntryPositions(tasksDir, taskId) :
        \E r \in {saveDimensionStandards(dirs, tasksDir, taskId, texts[2], mkdirOk,
                                         outcome, pos)} :
            /\ Len(r.entries) <= MaxEntries
            /\ dirs' = r.dirs
            /\ tasksDir' = r.entries
            /\ saveResp' = SaveResp("saveDimensionStandards", r.threw, taskId, r.paths,
                                    EmptyText, texts[2],
                                    RecordFile(tasksDir, taskId, "dimension"))
            /\ UNCHANGED <<others, configFile, clock, cfgResp, toolResp, fp, issued>>

SaveCleanOutput ==
    \E taskId \in StoreTaskIds, texts \in StoreTexts, mkdirOk \in BOOLEAN,
       outcome \in WriteOutcomes :
        \E pos \in NewEntryPositions(tasksDir, taskId) :
        \E r \in {saveCleanOutput(dirs, tasksDir, taskId, texts[1], texts[2], mkdirOk,
                                  outcome, pos)} :
            /\ Len(r.entries) <= MaxEntries
            /\ dirs' = r.dirs
            /\ tasksDir' = r.entries
            /\ saveResp' = SaveResp("saveCleanOutput", r.threw, taskId, r.paths,
                                    texts[1], texts[2],
                                    RecordFile(tasksDir, taskId, "dimension"))
            /\ UNCHANGED <<others, configFile, clock, cfgResp, toolResp, fp, issued>>

SaveDualOutputFiles ==
    \E taskId \in StoreTaskIds, texts \in StoreTexts, mkdirOk \in BOOLEAN,
       outcomeTask \in WriteOutcomes, outcomeDims \in WriteOutcomes :
        \E pos \in NewEntryPositions(tasksDir, taskId) :
        \E r \in {saveDualOutputFiles(dirs, tasksDir, taskId, texts[1], texts[2], mkdirOk,
                                      outcomeTask, outcomeDims, pos)} :
            /\ Len(r.entries) <= MaxEntries
            /\ dirs' = r.dirs
            /\ tasksDir' = r.entries
            /\ saveResp' = SaveResp("saveDualOutputFiles", r.threw, taskId, r.paths,
                                    texts[1], texts[2],
                                    RecordFile(tasksDir, taskId, "dimension"))
            /\ UNCHANGED <<others, configFile, clock, cfgResp, toolResp, fp, issued>>

SaveFinalDimensionStandards ==
    \E taskId \in StoreTaskIds, texts \in StoreTexts, mkdirOk \in BOOLEAN,
       outcome \in WriteOutcomes :
        \E pos \in NewEntryPositions(tasksDir, taskId) :
        \E r \in {saveFinalDimensionStandards(dirs, tasksDir, taskId, texts[1], texts[2],
                                              mkdirOk, outcome, pos)} :
            /\ Len(r.entries) <= MaxEntries
            /\ dirs' = r.dirs
            /\ tasksDir' = r.entries
            /\ saveResp' = SaveResp("saveFinalDimensionStandards", r.threw, taskId, r.paths,
                                    texts[1], texts[2],
                                    RecordFile(tasksDir, taskId, "dimension"))
            /\ UNCHANGED <<others, configFile, clock, cfgResp, toolResp, fp, issued>>

\* the task ids read back: the one the writers use and one never written
ReadTaskIds == StoreTaskIds \cup {TaskId(1, <<"0", "2">>)}

\* readDimensionStandards; the response carries the value returned in `before`
ReadDimensionStandards ==
    \E taskId \in ReadTaskIds, readOk \in BOOLEAN :
        \E r \in {readDimensionStandards(tasksDir, taskId, readOk)} :
            /\ saveResp' = SaveResp("readDimensionStandards", r.threw, taskId, {},
                                    EmptyText, EmptyText, r.content)
            /\ UNCHANGED <<others, dirs, configFile, tasksDir, clock, cfgResp, toolResp,
                           fp, issued>>

\* the writers and the reader of <taskId>_dimension.md
NextRecords ==
    \/ SaveDimensionStandards
    \/ SaveFinalDimensionStandards
    \/ ReadDimensionStandards

SpecRecords == Init /\ [][NextRecords]_vars

NextStore ==
    \/ SaveDimensionStandards
    \/ SaveCleanOutput
    \/ SaveDualOutputFiles
    \/ SaveFinalDimensionStandards

SpecStore == Init /\ [][NextStore]_vars

(***************************************************************************)
(* The fingerprint as a function: two task analyses drawn from a bounded   *)
(* set, and the step that computes the fingerprint of each.                *)
(***************************************************************************)
\* an optional string array: absent, or an array of at most MaxListLen strings
OptionalArrays ==
    {<<>>} \cup {<<s>> : s \in UNION {[1..n -> {1, 2}] : n \in 0..MaxListLen}}

TaskAnalyses ==
    {TaskAnalysis(c, 1, 1, k, o) :
        c \in {1, 2}, k \in OptionalArrays,
        o \in {<<>>, <<<<>>>>, <<<<1, 2>>>>, <<<<2, 1>>>>}}

InitHash ==
    /\ dirs = {}
    /\ configFile = <<>>
    /\ tasksDir = <<>>
    /\ clock = 0
    /\ cfgResp = NoCfgResp
    /\ toolResp = NoToolResp
    /\ saveResp = NoSaveResp
    /\ issued = {}
    /\ projects = NoProjects
    /\ optResp = NoOptResp
    /\ procs = NoProcs
    /\ fp \in {[a |-> a, b |-> b, ha |-> <<>>, hb |-> <<>>, done |-> FALSE] :
                  a \in TaskAnalyses, b \in TaskAnalyses}

ComputeFingerprints ==
    /\ ~fp.done
    /\ fp' = [fp EXCEPT !.ha = taskHash(fp.a), !.hb = taskHash(fp.b), !.done = TRUE]
    /\ UNCHANGED <<others, dirs, configFile, tasksDir, clock, cfgResp, toolResp, saveResp, issued>>

SpecHash == InitHash /\ [][ComputeFingerprints]_vars

(***************************************************************************)
(* The record paths as functions of the taskId string.  A string is a      *)
(* sequence of pieces: "/" is the separator, ".." the two dots, every      *)
(* other piece a run of ordinary characters.                               *)
(***************************************************************************)
MaxIdLen == 4

IdPieces == {"t", "..", "/"}

\* the taskId strings tried: z.string() takes every string
TaskIdStrings == UNION {[1..n -> IdPieces] : n \in 0..MaxIdLen}

\* the segments of a string: what stands between its separators
RECURSIVE SplitPath(_, _)
SplitPath(str, seg) ==
    IF str = <<>> THEN <<seg>>
    ELSE IF Head(str) = "/" THEN <<seg>> \o SplitPath(Tail(str), <<>>)
    ELSE SplitPath(Tail(str), Append(seg, Head(str)))

\* path.normalize on segments: empty segments are dropped and a ".."
\* segment removes the segment before it
RECURSIVE NormalizeSegments(_, _)
NormalizeSegments(segs, acc) ==
    IF segs = <<>> THEN acc
    ELSE IF Head(segs) = <<>> THEN NormalizeSegments(Tail(segs), acc)
    ELSE IF Head(segs) = <<"..">>
         THEN NormalizeSegments(Tail(segs),
                                IF acc = <<>> THEN acc ELSE SubSeq(acc, 1, Len(acc) - 1))
    ELSE NormalizeSegments(Tail(segs), Append(acc, Head(segs)))

\* path.join(dir, str) for an absolute directory given by its segments
join(dir, str) == NormalizeSegments(dir \o SplitPath(str, <<>>), <<>>)

\* getSubDirectories(projectPath).tasks for the project /p
TasksPath == <<<<"p">>, <<".qdg">>, <<"tasks">>>>

getTaskDirectory(taskId) == join(TasksPath, taskId)

getDimensionPath(taskId) == join(getTaskDirectory(taskId), taskId \o <<"_dimension.md">>)

\* path lies below dir
Inside(path, dir) == Len(path) > Len(dir) /\ SubSeq(path, 1, Len(dir)) = dir

InitPaths ==
    /\ dirs = {}
    /\ configFile = <<>>
    /\ tasksDir = <<>>
    /\ clock = 0
    /\ cfgResp = NoCfgResp
    /\ toolResp = NoToolResp
    /\ saveResp = NoSaveResp
    /\ issued = {}
    /\ projects = NoProjects
    /\ optResp = NoOptResp
    /\ procs = NoProcs
    /\ fp \in {[taskId |-> t, taskDir |-> <<>>, file |-> <<>>, done |-> FALSE] :
                  t \in TaskIdStrings}

\* the paths saveFinalDimensionStandards makes for its mkdir and its writeFile
ComputePaths ==
    /\ ~fp.done
    /\ fp' = [fp EXCEPT !.taskDir = getTaskDirectory(fp.taskId),
                        !.file = getDimensionPath(fp.taskId), !.done = TRUE]
    /\ UNCHANGED <<others, dirs, configFile, tasksDir, clock, cfgResp, toolResp, saveResp,
                   issued>>

SpecPaths == InitPaths /\ [][ComputePaths]_vars

(***************************************************************************)
(* Properties of the settings document (checked under SpecConfig).         *)
(***************************************************************************)

\* C4: initializeQdgDirectory writes the default settings document only when
\* none exists, and leaves an existing settings document exactly as it was.
Thm_C4_InitKeepsSettings ==
    [][cfgResp'.op = "initializeQdgDirectory" =>
          IF FileExists(configFile)
          THEN configFile' = configFile
          ELSE FileExists(configFile') => configFile' = <<defaultConfig>>]_vars

\* an initialization has run over a settings document that is not the default one
Wit_C4_InitOverEditedSettings ==
    /\ cfgResp.op = "initializeQdgDirectory"
    /\ ~cfgResp.threw
    /\ FileExists(configFile)
    /\ configFile[1] # defaultConfig

\* C5: after a successful saveConfig({dimensionCount: n}) or setDimensionCount(n),
\* n in 1..10, getConfig returns dimensionCount = n and the expectedScore it
\* returned before the call; symmetrically for expectedScore.
Thm_C5_ConfigRoundTrip ==
    [][/\ (/\ cfgResp'.op \in {"saveConfig", "setDimensionCount"}
           /\ ~cfgResp'.threw /\ cfgResp'.fault = "none"
           /\ cfgResp'.argDc \in 1..10 /\ cfgResp'.argEs = Absent)
          => /\ getConfig(configFile', TRUE).dc = cfgResp'.argDc
             /\ getConfig(configFile', TRUE).es = getConfig(configFile, TRUE).es
       /\ (/\ cfgResp'.op \in {"saveConfig", "setExpectedScore"}
           /\ ~cfgResp'.threw /\ cfgResp'.fault = "none"
           /\ cfgResp'.argEs \in 0..10 /\ cfgResp'.argDc = Absent)
          => /\ getConfig(configFile', TRUE).es = cfgResp'.argEs
             /\ getConfig(configFile', TRUE).dc = getConfig(configFile, TRUE).dc]_vars

\* saveConfig({dimensionCount: 7}) has succeeded on a project whose stored
\* expectedScore was the non-default 9
Wit_C5_SavedCountKeepsScore ==
    /\ cfgResp.op = "saveConfig"
    /\ ~cfgResp.threw
    /\ cfgResp.argDc = 7 /\ cfgResp.argEs = Absent
    /\ getConfig(configFile, TRUE).dc = 7
    /\ getConfig(configFile, TRUE).es = 9

\* C6: setDimensionCount fails with the range error exactly for n < 1 or n > 10
\* and setExpectedScore exactly for s < 0 or s > 10; a value in range is saved
\* unless the filesystem fails.
Thm_C6_RangeRejection ==
    /\ cfgResp.op = "setDimensionCount" =>
          /\ (cfgResp.argDc < 1 \/ cfgResp.argDc > 10)
                => cfgResp.threw /\ cfgResp.error = "range"
          /\ (cfgResp.argDc >= 1 /\ cfgResp.argDc <= 10)
                => /\ cfgResp.error # "range"
                   /\ cfgResp.fault = "none" => ~cfgResp.threw
    /\ cfgResp.op = "setExpectedScore" =>
          /\ (cfgResp.argEs < 0 \/ cfgResp.argEs > 10)
                => cfgResp.threw /\ cfgResp.error = "range"
          /\ (cfgResp.argEs >= 0 /\ cfgResp.argEs <= 10)
                => /\ cfgResp.error # "range"
                   /\ cfgResp.fault = "none" => ~cfgResp.threw

\* setDimensionCount(11) has been rejected
Wit_C6_CountElevenRejected ==
    /\ cfgResp.op = "setDimensionCount"
    /\ cfgResp.argDc = 11
    /\ cfgResp.threw /\ cfgResp.error = "range"

\* C7: getConfig never fails; a missing, unreadable or invalid settings document
\* yields dimensionCount = 5 and expectedScore = 8, and a document holding only
\* one of the two fields has the other filled from the defaults.
Thm_C7_GetConfigDefaults ==
    cfgResp.op = "getConfig" =>
        /\ ~cfgResp.threw
        /\ (~FileExists(configFile) \/ cfgResp.fault = "read" \/ ~configFile[1].valid)
              => cfgResp.result.dc = 5 /\ cfgResp.result.es = 8
        /\ (FileExists(configFile) /\ cfgResp.fault = "none" /\ configFile[1].valid)
              => /\ cfgResp.result.dc = IF configFile[1].dc = Absent THEN 5 ELSE configFile[1].dc
                 /\ cfgResp.result.es = IF configFile[1].es = Absent THEN 8 ELSE configFile[1].es

\* getConfig has answered with the defaults over a settings document that is
\* not valid JSON
Wit_C7_CorruptGivesDefaults ==
    /\ cfgResp.op = "getConfig"
    /\ FileExists(configFile) /\ ~configFile[1].valid
    /\ cfgResp.result.dc = 5 /\ cfgResp.result.es = 8

(***************************************************************************)
(* Properties of the dedup lookup (checked under SpecTools).               *)
(***************************************************************************)

\* C2: generate_quality_dimensions_prompt calls made one after the other with
\* the same fingerprint all report one Task ID, and .qdg/tasks never holds two
\* task directories of one fingerprint.
Cex_C2_SameFingerprintSameTaskId ==
    /\ \A p, q \in issued : p[1] = q[1] => p[2] = q[2]
    /\ \A i, j \in DOMAIN tasksDir :
          (/\ tasksDir[i].isDir /\ tasksDir[j].isDir
           /\ SubSeq(tasksDir[i].name, Len(tasksDir[i].name) - HashLen + 1, Len(tasksDir[i].name))
                = SubSeq(tasksDir[j].name, Len(tasksDir[j].name) - HashLen + 1, Len(tasksDir[j].name)))
          => i = j

\* C3: what the lookup of generate_quality_dimensions_prompt finds for
\* fingerprint F is the name task_<millis>_<F> of a stored task directory, and it
\* finds one whenever such a directory was there.
Cex_C3_LookupReturnsTaskId ==
    (toolResp.op = "generate_quality_dimensions_prompt" /\ ~toolResp.isError) =>
        LET carriers ==
                {tasksDir[i].name : i \in
                    {j \in DOMAIN tasksDir :
                        /\ tasksDir[j].isDir
                        /\ \E ts \in 0..MaxTicks :
                              tasksDir[j].name = TaskId(ts, toolResp.hash)}}
        IN /\ toolResp.existing # <<>> => toolResp.existing \in carriers
           /\ (carriers # {} /\ ~toolResp.created) => toolResp.existing \in carriers

(***************************************************************************)
(* Properties of the fingerprint (checked under SpecHash).                 *)
(***************************************************************************)

\* C1: two task analyses with equal coreTask, taskType and domain whose
\* keyElements and whose objectives hold the same strings the same number of
\* times, in any order, have the same fingerprint.
Thm_C1_FingerprintOrderIndependent ==
    fp.done =>
        LET SameItems(x, y) ==
                /\ (x = <<>>) = (y = <<>>)
                /\ x # <<>> =>
                      /\ Len(x[1]) = Len(y[1])
                      /\ \A v \in {x[1][i] : i \in DOMAIN x[1]} :
                            Cardinality({i \in DOMAIN x[1] : x[1][i] = v})
                                = Cardinality({i \in DOMAIN y[1] : y[1][i] = v})
        IN (/\ fp.a.coreTask = fp.b.coreTask
            /\ fp.a.taskType = fp.b.taskType
            /\ fp.a.domain = fp.b.domain
            /\ SameItems(fp.a.keyElements, fp.b.keyElements)
            /\ SameItems(fp.a.objectives, fp.b.objectives))
           => fp.ha = fp.hb

\* the fingerprints of two analyses that list the same key elements and the
\* same objectives in opposite orders have been computed
Wit_C1_ReorderedArrays ==
    /\ fp.done
    /\ fp.a.coreTask = fp.b.coreTask
    /\ fp.a.keyElements = <<<<1, 2>>>> /\ fp.b.keyElements = <<<<2, 1>>>>
    /\ fp.a.objectives = <<<<2, 1>>>> /\ fp.b.objectives = <<<<1, 2>>>>
    /\ fp.ha = fp.hb

(***************************************************************************)
(* Properties of the generated prompt (checked under SpecPrompt).          *)
(***************************************************************************)

\* C8: the number of dimensions the prompt of generate_quality_dimensions_prompt
\* asks for is the value stored at settings.dimensionCount in the project's
\* qdg.config.json.
Cex_C8_SettingsDimensionCountUsed ==
    [][GenerateQualityDimensionsPrompt =>
          ((/\ ~toolResp'.isError
            /\ FileExists(configFile')
            /\ configFile'[1].valid
            /\ configFile'[1].hasSettings
            /\ configFile'[1].sdc # Absent)
           => toolResp'.dimensionCount = configFile'[1].sdc)]_vars

(***************************************************************************)
(* Properties of the record writers (checked under SpecStore).             *)
(***************************************************************************)

\* C9: a writer (saveFinalDimensionStandards, saveDimensionStandards,
\* saveCleanOutput, saveDualOutputFiles) that returns has returned the paths of
\* the files it writes, each of them a file of size above zero; when a file it
\* wrote is left with zero bytes the call has failed and returned no path.
Thm_C9_NoPathToEmptyFile ==
    saveResp.op # "none" =>
        LET written ==
                IF saveResp.op = "saveCleanOutput" THEN {"output"}
                ELSE IF saveResp.op = "saveDualOutputFiles" THEN {"task", "dimensions"}
                ELSE {"dimension"}
        IN /\ ~saveResp.threw =>
                 /\ saveResp.paths = written
                 /\ \A k \in saveResp.paths :
                       /\ FileExists(RecordFile(tasksDir, saveResp.taskId, k))
                       /\ FileSize(RecordFile(tasksDir, saveResp.taskId, k)) > 0
           /\ saveResp.threw => saveResp.paths = {}
           /\ (\E k \in written :
                 /\ FileExists(RecordFile(tasksDir, saveResp.taskId, k))
                 /\ FileSize(RecordFile(tasksDir, saveResp.taskId, k)) = 0)
              => saveResp.threw

\* saveDualOutputFiles has failed after a write that left the dimensions file
\* with zero bytes next to a task file that was written in full
Wit_C9_DualFailsOnEmptyFile ==
    /\ saveResp.op = "saveDualOutputFiles"
    /\ saveResp.threw
    /\ saveResp.paths = {}
    /\ FileExists(RecordFile(tasksDir, saveResp.taskId, "task"))
    /\ FileSize(RecordFile(tasksDir, saveResp.taskId, "task")) > 0
    /\ FileExists(RecordFile(tasksDir, saveResp.taskId, "dimensions"))
    /\ FileSize(RecordFile(tasksDir, saveResp.taskId, "dimensions")) = 0

\* C10: a successful saveFinalDimensionStandards leaves <taskId>_dimension.md
\* holding the rendering of that call and nothing else, whatever the file held
\* before, and adds or changes no other file of the task folder.
Thm_C10_SaveOverwrites ==
    [][(saveResp'.op = "saveFinalDimensionStandards" /\ ~saveResp'.threw) =>
          /\ RecordFile(tasksDir', saveResp'.taskId, "dimension")
                = <<<<Segment("final", saveResp'.taskId, saveResp'.refined, saveResp'.dims)>>>>
          /\ \A k \in Kinds \ {"dimension"} :
                RecordFile(tasksDir', saveResp'.taskId, k)
                    = RecordFile(tasksDir, saveResp'.taskId, k)
          /\ Len(tasksDir') =
                IF IndexOf(tasksDir, saveResp'.taskId) = 0 THEN Len(tasksDir) + 1
                ELSE Len(tasksDir)]_vars

\* a second successful saveFinalDimensionStandards for a task, with other texts
\* than the record of the first held
Wit_C10_SecondSaveReplacedFirst ==
    /\ saveResp.op = "saveFinalDimensionStandards"
    /\ ~saveResp.threw
    /\ saveResp.before = <<<<Segment("final", saveResp.taskId, 1, 1)>>>>
    /\ saveResp.refined = 2 /\ saveResp.dims = 2
    /\ RecordFile(tasksDir, saveResp.taskId, "dimension")
          = <<<<Segment("final", saveResp.taskId, 2, 2)>>>>

(***************************************************************************)
(* Properties of the tool handlers (checked under SpecAnalysis).           *)
(***************************************************************************)

\* C11: a tool call inside which an operation failed answers with a response
\* flagged isError; no failure ends in a response that reports success.
Cex_C11_FailureBecomesError ==
    (toolResp.op # "none" /\ toolResp.fault # "none") => toolResp.isError

\* C12: a generate_quality_dimensions_prompt call whose task analysis
\* validateTaskAnalysis finds invalid (a required field missing, complexity
\* outside 1..5, taskName shorter than 3 or longer than 15 characters) answers
\* with an error and creates no task directory.
Cex_C12_InvalidAnalysisRejected ==
    [][\A input \in TaskJsonInputs, targetScore \in {Absent, 6},
          fault \in {"none", "mkdirAll", "mkdirTask"} :
          (/\ ~validateTaskAnalysis(input).isValid
           /\ generateQualityDimensionsPrompt(input, targetScore, fault))
          => toolResp'.isError /\ tasksDir' = tasksDir]_vars

\* C13: a task analysis without keyElements or without objectives has the
\* fingerprint of the same analysis with the absent array given as [].
Cex_C13_AbsentArrayHashedAsEmpty ==
    fp.done =>
        LET Normalised(x) == IF x = <<>> THEN <<<<>>>> ELSE x
        IN (fp.b = [fp.a EXCEPT !.keyElements = Normalised(fp.a.keyElements),
                                !.objectives = Normalised(fp.a.objectives)])
           => fp.ha = fp.hb

\* stage 1 and stage 3 on one project: the save tool takes any task id
NextSave ==
    \/ GenerateTaskAnalysisPrompt
    \/ SaveQualityDimensions

SpecSave == Init /\ [][NextSave]_vars

SpecOptional == Init /\ [][NextOptional]_vars

Cex_C15_RelativePathRejected ==
    [][\A projectPath \in ProjectPathInputs \ {<<>>, <<EmptyPath>>} :
          (optResp'.provided = projectPath /\ NextOptional)
          => /\ ~projectPath[1].abs
                => /\ optResp'.isError
                   /\ optResp'.message = "Project path must be absolute"
                   /\ projects' = projects
             /\ (projectPath[1].abs /\ ~ExistsSync(projectPath[1]))
                => /\ optResp'.isError
                   /\ optResp'.message = "Project path does not exist"]_vars

\* C16: in the optional-path server a call of any of the three tools without
\* a project path leaves every .qdg tree as it was; stage 2 then asks for 5
\* dimensions and the save tool returns the complete standards document, with
\* both texts, in its response.
Thm_C16_NoPathNoFileSystem ==
    [][optResp'.provided = <<>> =>
       /\ \A fault \in {"none", "mkdirConfig"} :
             optGenerateTaskAnalysisPrompt(<<>>, fault)
             => ~optResp'.isError /\ projects' = projects
       /\ \A input \in OptTaskJsonInputs, targetScore \in {Absent},
             fault \in {"none", "mkdirTask"} :
             optGenerateQualityDimensionsPrompt(<<>>, input, targetScore, fault)
             => /\ projects' = projects
                /\ ~optResp'.isError => optResp'.dimensionCount = 5
       /\ \A taskId \in OptSaveTaskIdInputs, texts \in TextInputs,
             fault \in {"none", "write"} :
             optSaveQualityDimensions(<<>>, taskId, <<>>, texts, fault)
             => /\ projects' = projects
                /\ ~optResp'.isError
                /\ optResp'.content = <<Segment("complete", taskId, texts[1], texts[2])>>]_vars

\* a save without a project path answered with the document while a project
\* on disk has a .qdg tree whose settings ask for another count
Wit_C16_SaveWithoutPath ==
    /\ optResp.op = "save_quality_dimensions"
    /\ optResp.provided = <<>>
    /\ ~optResp.isError
    /\ optResp.content = <<Segment("complete", optResp.taskId, 2, 2)>>
    /\ \E d \in ExistingDirs : projects[d].entries # <<>>

\* C17: when initializeQdgDirectory fails to create one of its
\* subdirectories the call is not aborted: the other subdirectory is still
\* created and the call returns its result instead of throwing.
Cex_C17_MkdirFailureDoesNotAbort ==
    (cfgResp.op = "initializeQdgDirectory" /\ cfgResp.fault \in {"mkdirTasks", "mkdirConfig"})
    => /\ ~cfgResp.threw
       /\ cfgResp.fault = "mkdirTasks" => "config" \in dirs
       /\ cfgResp.fault = "mkdirConfig" => "tasks" \in dirs

SpecSetters == Init /\ [][NextSetters]_vars

\* C19: setDimensionCount and setExpectedScore are not isolated from one
\* another: the document a setter writes holds, in the field it does not set,
\* the value the setter read when it was called, whatever another setter has
\* written since; so two setters in flight together can lose one update.
Thm_C19_SetterWritesWhatItRead ==
    [][\A p \in ProcIds :
          (procs[p].pc = "write" /\ procs'[p].pc = "done")
          => /\ configFile'[1].dc = IF procs[p].op = "setDimensionCount"
                                    THEN procs[p].arg ELSE procs[p].read.dc
             /\ configFile'[1].es = IF procs[p].op = "setExpectedScore"
                                    THEN procs[p].arg ELSE procs[p].read.es]_vars

\* setDimensionCount(3) and setExpectedScore(9) have both returned without an
\* error and the document holds score 9 with the old count 5
Wit_C19_LostUpdate ==
    /\ procs[1].op = "setDimensionCount"
    /\ procs[1].arg = 3
    /\ procs[1].pc = "done"
    /\ ~procs[1].threw
    /\ procs[2].op = "setExpectedScore"
    /\ procs[2].arg = 9
    /\ procs[2].pc = "done"
    /\ ~procs[2].threw
    /\ procs[2].read.dc = DefaultDimensionCount
    /\ configFile # <<>>
    /\ configFile[1].dc = DefaultDimensionCount
    /\ configFile[1].es = 9

SpecGenerate == Init /\ [][NextGenerate]_vars

\* C20: the lookup and the creation of a task directory are not isolated: a
\* generate call that found no record when it searched creates the directory
\* of its own Task ID, whatever the tasks directory holds by then; so two
\* calls with one analysis in flight together can leave two directories for
\* one fingerprint.
Thm_C20_CreatesAfterStaleLookup ==
    [][\A p \in ProcIds :
          (procs[p].pc = "mkdir" /\ procs'[p].pc = "done" /\ procs'[p].taskId # <<>>)
          => /\ procs[p].existing = <<>>
             /\ \E i \in DOMAIN tasksDir' : tasksDir'[i].name = procs[p].taskId]_vars

\* two calls with the same analysis have both returned a Task ID of their
\* own and the tasks directory holds both directories
Wit_C20_TwoDirectoriesOneFingerprint ==
    /\ procs[1].pc = "done" /\ procs[2].pc = "done"
    /\ ~procs[1].threw /\ ~procs[2].threw
    /\ procs[1].op = "generate_quality_dimensions_prompt"
    /\ procs[2].op = "generate_quality_dimensions_prompt"
    /\ procs[1].arg = procs[2].arg
    /\ procs[1].existing = <<>> /\ procs[2].existing = <<>>
    /\ procs[1].taskId # procs[2].taskId
    /\ Len(tasksDir) = 2
    /\ {tasksDir[1].name, tasksDir[2].name} = {procs[1].taskId, procs[2].taskId}
    /\ \A i \in DOMAIN tasksDir : Includes(tasksDir[i].name, procs[1].hash)

\* C21: after a successful saveFinalDimensionStandards the record is the
\* file <taskId>_dimension.md of the folder tasks/<taskId> and
\* readDimensionStandards gives back a document holding the description and
\* the dimensions text as they were handed in; readDimensionStandards never
\* throws, returns the text of the file when there is one and null when there
\* is no record.
Thm_C21_NestedRoundTrip ==
    /\ (saveResp.op = "saveFinalDimensionStandards" /\ ~saveResp.threw)
       => /\ IndexOf(tasksDir, saveResp.taskId) # 0
          /\ tasksDir[IndexOf(tasksDir, saveResp.taskId)].isDir
          /\ LET r == readDimensionStandards(tasksDir, saveResp.taskId, TRUE) IN
             /\ ~r.threw
             /\ r.content # <<>>
             /\ Len(r.content[1]) = 1
             /\ r.content[1][1].refined = saveResp.refined
             /\ r.content[1][1].dims = saveResp.dims
    /\ saveResp.op = "readDimensionStandards"
       => /\ ~saveResp.threw
          /\ RecordFile(tasksDir, saveResp.taskId, "dimension") = <<>>
             => saveResp.before = <<>>
          /\ saveResp.before # <<>>
             => saveResp.before = RecordFile(tasksDir, saveResp.taskId, "dimension")

\* the final document of a task read back with both texts in it
Wit_C21_ReadBackFinalDocument ==
    /\ saveResp.op = "readDimensionStandards"
    /\ saveResp.before = <<<<Segment("final", saveResp.taskId, 2, 2)>>>>

\* C22: a generate_quality_dimensions_prompt call whose mkdir of the new
\* task directory fails is answered without isError: the response holds the
\* prompt (its dimension count and expected score) and a warning, and no
\* task directory is created.
Thm_C22_MkdirFailureIsWarning ==
    [][\A input \in TaskJsonInputs \ {<<>>}, targetScore \in {Absent, 6} :
          (/\ toolResp'.fault = "mkdirTask"
           /\ toolResp'.op = "generate_quality_dimensions_prompt"
           /\ toolResp'.input \in {input, <<>>}
           /\ toolResp'.expectedScore \in {Absent, IF targetScore = Absent
                                                    THEN DefaultTargetScore ELSE targetScore}
           /\ ~PromptThrows(input[1])
           /\ findExisting(tasksDir, taskHash(input[1])) = <<>>
           /\ generateQualityDimensionsPrompt(input, targetScore, "mkdirTask"))
          => /\ ~toolResp'.isError
             /\ toolResp'.warning
             /\ toolResp'.dimensionCount = getDimensionCount(configFile', TRUE)
             /\ toolResp'.expectedScore # Absent
             /\ tasksDir' = tasksDir]_vars

\* a call met the mkdir failure and was answered with the prompt and a warning
Wit_C22_WarningWithPrompt ==
    /\ toolResp.op = "generate_quality_dimensions_prompt"
    /\ toolResp.fault = "mkdirTask"
    /\ toolResp.warning
    /\ ~toolResp.isError
    /\ toolResp.dimensionCount = DefaultDimensionCount
    /\ tasksDir = <<>>

\* C23: for every taskId string the task directory that a save operation
\* creates is <project>/.qdg/tasks or lies inside it, and the record file it
\* writes lies inside <project>/.qdg/tasks.
Cex_C23_PathsInsideTasks ==
    fp.done => /\ fp.taskDir = TasksPath \/ Inside(fp.taskDir, TasksPath)
               /\ Inside(fp.file, TasksPath)

\* C24: a setDimensionCount or setExpectedScore call rejected for its range
\* leaves the project as it was: no directory is created and the settings
\* document is neither created nor changed.
Thm_C24_RejectedSetterTouchesNothing ==
    [][(cfgResp'.op \in {"setDimensionCount", "setExpectedScore"} /\ cfgResp'.error = "range")
       => dirs' = dirs /\ configFile' = configFile /\ tasksDir' = tasksDir]_vars

\* setDimensionCount(11) has been rejected on a project that still has no .qdg
Wit_C24_RejectedOnFreshProject ==
    /\ cfgResp.op = "setDimensionCount"
    /\ cfgResp.argDc = 11
    /\ cfgResp.error = "range"
    /\ dirs = {}
    /\ configFile = <<>>

\* C25: after any sequence of initializeQdgDirectory, saveConfig,
\* setDimensionCount and setExpectedScore, the dimensionCount and
\* expectedScore of ConfigManager.getConfig equal settings.dimensionCount and
\* settings.expectedScore of QdgDirectoryManager.getQdgConfig.
Cex_C25_ReadersAgree ==
    /\ getConfig(configFile, TRUE).dc = getQdgConfig(configFile, TRUE).sdc
    /\ getConfig(configFile, TRUE).es = getQdgConfig(configFile, TRUE).ses

\* C26: after any sequence of initializeQdgDirectory, saveConfig,
\* setDimensionCount and setExpectedScore, getDimensionCount returns a value
\* in 1..10 and getExpectedScore returns a value in 0..10.
Cex_C26_SettingsInRange ==
    /\ getDimensionCount(configFile, TRUE) \in MinDimensionCount..MaxDimensionCount
    /\ getExpectedScore(configFile, TRUE) \in MinExpectedScore..MaxExpectedScore

\* C27: a generate_quality_dimensions_prompt call that fails because
\* taskAnalysisJson is not valid JSON leaves the project's filesystem
\* unchanged: no .qdg directory, settings document or task directory is
\* created by the failed call.
Cex_C27_InvalidJsonTouchesNothing ==
    [][\A targetScore \in {Absent, 6} :
          (/\ toolResp'.op = "generate_quality_dimensions_prompt"
           /\ toolResp'.isError
           /\ toolResp'.fault = "none"
           /\ generateQualityDimensionsPrompt(<<>>, targetScore, "none"))
          => dirs' = dirs /\ configFile' = configFile /\ tasksDir' = tasksDir]_vars

(***************************************************************************)
(* The whole store of one project: the directory initialisation, a         *)
(* configuration writer, a tool and the nested record writer.              *)
(***************************************************************************)
NextGrowth ==
    \/ InitializeQdgDirectory
    \/ SetExpectedScore
    \/ GenerateTaskAnalysisPrompt
    \/ SaveFinalDimensionStandards

SpecGrowth == Init /\ [][NextGrowth]_vars

====
